---- MODULE Spec2Model ----
(***************************************************************************)
(* Descriptor synthesis of entproto (go-slash/contrib): the Service        *)
(* annotation, the standard and extra method synthesizers, the message     *)
(* deduplicator and the service assembler of entproto/service.go.          *)
(*                                                                         *)
(* Conventions.  A Go string is a TLA+ string; fmt.Sprintf is \o.  A nil   *)
(* *string, a nil Label and a nil error are the sentinel Nil.  A pointer   *)
(* to a struct is a sequence of length 0 (nil) or 1.  A Go slice is a      *)
(* sequence.  The Method bit mask keeps its integer values.                *)
(***************************************************************************)
EXTENDS Integers, Sequences, FiniteSets, TLC

VARIABLES pc, entity, opts, annot, res, msgs, deduped, again

vars == <<pc, entity, opts, annot, res, msgs, deduped, again>>

Nil == "<nil>"

-----------------------------------------------------------------------------
(* Bounds of the model *)

\* longest list of ExtraMethod options given to Service()
MaxExtraMethods == 2
\* longest message list handed to dedupeServiceMessages on its own
MaxMsgs == 4

\* longest list of named messages given to the Message annotation
MaxNamedMessages == 2
\* longest field-definition list of an extra method synthesized on its own
MaxExtraFields == 2

-----------------------------------------------------------------------------
(* service.go:28-59  the Method bit mask *)

\* the const block opens with ServiceAnnotation, MaxPageSize and
\* MaxBatchCreateSize, so iota is 3 at MethodCreate
MethodCreate == 8
MethodGet == 16
MethodUpdate == 32
MethodDelete == 64
MethodList == 128
MethodBatchCreate == 256

RECURSIVE BitAnd(_, _)
BitAnd(a, b) ==
    IF a = 0 \/ b = 0 THEN 0
    ELSE (IF a % 2 = 1 /\ b % 2 = 1 THEN 1 ELSE 0) + 2 * BitAnd(a \div 2, b \div 2)

RECURSIVE BitOr(_, _)
BitOr(a, b) ==
    IF a = 0 THEN b
    ELSE IF b = 0 THEN a
    ELSE (IF a % 2 = 1 \/ b % 2 = 1 THEN 1 ELSE 0) + 2 * BitOr(a \div 2, b \div 2)

MethodAll ==
    BitOr(MethodCreate, BitOr(MethodGet, BitOr(MethodUpdate,
        BitOr(MethodDelete, BitOr(MethodList, MethodBatchCreate)))))

\* the two methods are compared instead of their bits
IsEqual(m, n) == m = n

Is(m, n) == BitAnd(m, n) # 0

-----------------------------------------------------------------------------
(* Strings computed from the entity name *)

\* gen.Funcs["plural"] of ent: the inflected plural of the name, on the
\* entity names of the model
plural(name) ==
    CASE name = "User" -> "Users"
      [] name = "BlogPost" -> "BlogPosts"
      [] name = "Category" -> "Categories"

\* snake case of a CamelCase name, on the entity names of the model and
\* their plurals
snake(name) ==
    CASE name = "User" -> "user"
      [] name = "Users" -> "users"
      [] name = "BlogPost" -> "blog_post"
      [] name = "BlogPosts" -> "blog_posts"
      [] name = "Category" -> "category"
      [] name = "Categories" -> "categories"

-----------------------------------------------------------------------------
(* Descriptors (descriptorpb) *)

FieldDescriptorProto(name, number, label, type, typeName) ==
    [Name |-> name, Number |-> number, Label |-> label, Type |-> type,
     TypeName |-> typeName]

DescriptorProto(name, field, enumType) ==
    [Name |-> name, Field |-> field, EnumType |-> enumType]

MethodDescriptorProto(name, inputType, outputType) ==
    [Name |-> name, InputType |-> inputType, OutputType |-> outputType]

\* the ID field's descriptor: named "id", numbered by its entproto.Field
\* annotation, typed by the type map; an error for a type without mapping
toProtoFieldDescriptor(id) ==
    LET t == CASE id.Type = "int" -> "TYPE_INT64"
               [] id.Type = "uint64" -> "TYPE_UINT64"
               [] id.Type = "string" -> "TYPE_STRING"
               [] id.Type = "uuid" -> "TYPE_BYTES"
               [] id.Type = "float64" -> "TYPE_DOUBLE"
               [] OTHER -> Nil
    IN  IF t = Nil
        THEN [field |-> <<>>, err |-> "unsupported field type \"" \o id.Type \o "\""]
        ELSE [field |-> <<FieldDescriptorProto("id", id.Number, Nil, t, Nil)>>,
              err |-> Nil]

-----------------------------------------------------------------------------
(* service.go:236-393  genMethodProtos *)

\* gen.Field predicates read by the List case (service.go:304)
IntegerTypes ==
    {"int", "int8", "int16", "int32", "int64",
     "uint", "uint8", "uint16", "uint32", "uint64"}

IsInteger(id) == id.Type \in IntegerTypes

IsUUID(id) == id.Type = "uuid"

IsString(id) == id.Type = "string"

\* methodResources{} returned beside an error
noMethodResources(err) == [methodDescriptor |-> <<>>, messages |-> <<>>, err |-> err]

methodResources(methodName, inputName, outputName, messages) ==
    [methodDescriptor |-> <<MethodDescriptorProto(methodName, inputName, outputName)>>,
     messages |-> messages, err |-> Nil]

singleMessageField(genType) ==
    FieldDescriptorProto(snake(genType.Name), 1, Nil, "TYPE_MESSAGE", genType.Name)

repeatedMessageField(genType) ==
    FieldDescriptorProto(snake(plural(genType.Name)), 1, "LABEL_REPEATED",
                         "TYPE_MESSAGE", genType.Name)

\* the values are numbered from 1
GetViewEnumFromOne ==
    [Name |-> "View",
     Value |-> << [Number |-> 1, Name |-> "VIEW_UNSPECIFIED"],
                  [Number |-> 2, Name |-> "BASIC"],
                  [Number |-> 3, Name |-> "WITH_EDGE_IDS"] >>]

\* the View enum nested in Get<Entity>Request (service.go:275-282)
GetViewEnum ==
    [Name |-> "View",
     Value |-> << [Number |-> 0, Name |-> "VIEW_UNSPECIFIED"],
                  [Number |-> 1, Name |-> "BASIC"],
                  [Number |-> 2, Name |-> "WITH_EDGE_IDS"] >>]

\* the View enum nested in List<Entity>Request (service.go:330-337)
ListViewEnum ==
    [Name |-> "View",
     Value |-> << [Number |-> 0, Name |-> "VIEW_UNSPECIFIED"],
                  [Number |-> 1, Name |-> "BASIC"],
                  [Number |-> 2, Name |-> "WITH_EDGE_IDS"] >>]

genMethodGet(genType, idField) ==
    LET input == DescriptorProto("Get" \o genType.Name \o "Request",
                     << idField,
                        FieldDescriptorProto("view", 2, Nil, "TYPE_ENUM", "View") >>,
                     <<GetViewEnum>>)
    IN  methodResources("Get" \o genType.Name, input.Name, genType.Name, <<input>>)

genMethodCreate(genType, idField) ==
    LET input == DescriptorProto("Create" \o genType.Name \o "Request",
                     <<singleMessageField(genType)>>, <<>>)
    IN  methodResources("Create" \o genType.Name, input.Name, genType.Name, <<input>>)

\* Update selects its target by an id field beside the entity
genMethodUpdateWithID(genType, idField) ==
    LET input == DescriptorProto("Update" \o genType.Name \o "Request",
                     <<idField, singleMessageField(genType)>>, <<>>)
    IN  methodResources("Update" \o genType.Name, input.Name, genType.Name, <<input>>)

genMethodUpdate(genType, idField) ==
    LET input == DescriptorProto("Update" \o genType.Name \o "Request",
                     <<singleMessageField(genType)>>, <<>>)
    IN  methodResources("Update" \o genType.Name, input.Name, genType.Name, <<input>>)

\* Delete returns the entity, as Update does
genMethodDeleteReturnsEntity(genType, idField) ==
    LET input == DescriptorProto("Delete" \o genType.Name \o "Request",
                     <<idField>>, <<>>)
    IN  methodResources("Delete" \o genType.Name, input.Name, genType.Name, <<input>>)

genMethodDelete(genType, idField) ==
    LET input == DescriptorProto("Delete" \o genType.Name \o "Request",
                     <<idField>>, <<>>)
    IN  methodResources("Delete" \o genType.Name, input.Name,
                        "google.protobuf.Empty", <<input>>)

\* the List request starts with the id field, as the Get request does
genMethodListWithID(genType, idField) ==
    IF ~(IsInteger(genType.ID) \/ IsUUID(genType.ID) \/ IsString(genType.ID))
    THEN noMethodResources("entproto: list method does not support schema \""
                           \o genType.Name \o "\" id type \"" \o genType.ID.Type \o "\"")
    ELSE
    LET input == DescriptorProto("List" \o genType.Name \o "Request",
                     << idField,
                        FieldDescriptorProto("page_size", 1, Nil, "TYPE_INT32", Nil),
                        FieldDescriptorProto("page_token", 2, Nil, "TYPE_STRING", Nil),
                        FieldDescriptorProto("view", 3, Nil, "TYPE_ENUM", "View") >>,
                     <<ListViewEnum>>)
        outputName == "List" \o genType.Name \o "Response"
        output == DescriptorProto(outputName,
                     << FieldDescriptorProto(snake(genType.Name) \o "_list", 1,
                            "LABEL_REPEATED", "TYPE_MESSAGE", genType.Name),
                        FieldDescriptorProto("next_page_token", 2, Nil, "TYPE_STRING", Nil) >>,
                     <<>>)
    IN  methodResources("List" \o genType.Name, input.Name, outputName,
                        <<input, output>>)

genMethodList(genType, idField) ==
    IF ~(IsInteger(genType.ID) \/ IsUUID(genType.ID) \/ IsString(genType.ID))
    THEN noMethodResources("entproto: list method does not support schema \""
                           \o genType.Name \o "\" id type \"" \o genType.ID.Type \o "\"")
    ELSE
    LET input == DescriptorProto("List" \o genType.Name \o "Request",
                     << FieldDescriptorProto("page_size", 1, Nil, "TYPE_INT32", Nil),
                        FieldDescriptorProto("page_token", 2, Nil, "TYPE_STRING", Nil),
                        FieldDescriptorProto("view", 3, Nil, "TYPE_ENUM", "View") >>,
                     <<ListViewEnum>>)
        outputName == "List" \o genType.Name \o "Response"
        output == DescriptorProto(outputName,
                     << FieldDescriptorProto(snake(genType.Name) \o "_list", 1,
                            "LABEL_REPEATED", "TYPE_MESSAGE", genType.Name),
                        FieldDescriptorProto("next_page_token", 2, Nil, "TYPE_STRING", Nil) >>,
                     <<>>)
    IN  methodResources("List" \o genType.Name, input.Name, outputName,
                        <<input, output>>)

\* BatchCreate relies on the Create method for Create<Entity>Request
genMethodBatchCreateNoCreateRequest(genType, idField) ==
    LET pluralEntityName == plural(genType.Name)
        input == DescriptorProto("BatchCreate" \o pluralEntityName \o "Request",
                     << FieldDescriptorProto("requests", 1, "LABEL_REPEATED",
                            "TYPE_MESSAGE", "Create" \o genType.Name \o "Request") >>,
                     <<>>)
        outputName == "BatchCreate" \o pluralEntityName \o "Response"
        output == DescriptorProto(outputName, <<repeatedMessageField(genType)>>, <<>>)
    IN  methodResources("BatchCreate" \o genType.Name, input.Name, outputName,
                        <<input, output>>)

genMethodBatchCreate(genType, idField) ==
    LET createRequest == DescriptorProto("Create" \o genType.Name \o "Request",
                             <<singleMessageField(genType)>>, <<>>)
        pluralEntityName == plural(genType.Name)
        input == DescriptorProto("BatchCreate" \o pluralEntityName \o "Request",
                     << FieldDescriptorProto("requests", 1, "LABEL_REPEATED",
                            "TYPE_MESSAGE", "Create" \o genType.Name \o "Request") >>,
                     <<>>)
        outputName == "BatchCreate" \o pluralEntityName \o "Response"
        output == DescriptorProto(outputName, <<repeatedMessageField(genType)>>, <<>>)
    IN  methodResources("BatchCreate" \o genType.Name, input.Name, outputName,
                        <<createRequest, input, output>>)

genMethodProtos(genType, m) ==
    LET id == toProtoFieldDescriptor(genType.ID)
    IN  IF id.err # Nil THEN noMethodResources(id.err)
        ELSE LET idField == id.field[1]
             IN  CASE m = MethodGet -> genMethodGet(genType, idField)
                   [] m = MethodCreate -> genMethodCreate(genType, idField)
                   [] m = MethodUpdate -> genMethodUpdate(genType, idField)
                   [] m = MethodDelete -> genMethodDelete(genType, idField)
                   [] m = MethodList -> genMethodList(genType, idField)
                   [] m = MethodBatchCreate -> genMethodBatchCreate(genType, idField)
                   [] OTHER -> noMethodResources("unknown method")

-----------------------------------------------------------------------------
(* service.go:170-234  genExtraMethodProtos *)

\* a scalar type, when supplied, takes precedence over the typeName
extraItemScalarWins(f) ==
    [Name |-> f.FieldName,
     Number |-> f.Number,
     Label |-> IF f.Repeated THEN "LABEL_REPEATED" ELSE Nil,
     Type |-> IF f.Type # "0" THEN f.Type ELSE "TYPE_MESSAGE",
     TypeName |-> IF f.Type # "0" THEN Nil ELSE f.TypeName]

\* one pass of the loops at service.go:184-202 and 204-222
extraItem(f) ==
    [Name |-> f.FieldName,
     Number |-> f.Number,
     Label |-> IF f.Repeated THEN "LABEL_REPEATED" ELSE Nil,
     Type |-> IF f.TypeName # "" THEN "TYPE_MESSAGE" ELSE f.Type,
     TypeName |-> IF f.TypeName # "" THEN f.TypeName ELSE Nil]

extraItems(fields) == [k \in 1..Len(fields) |-> extraItem(fields[k])]

genExtraMethodProtos(m) ==
    LET inputTypeName == m.Name \o "Request"
        outputTypeName == m.Name \o "Response"
        input == DescriptorProto(inputTypeName, extraItems(m.InputFields), <<>>)
        output == DescriptorProto(outputTypeName, extraItems(m.OutputFields), <<>>)
    IN  methodResources(m.Name, inputTypeName, outputTypeName, <<input, output>>)

-----------------------------------------------------------------------------
(* service.go:422-433  dedupeServiceMessages *)

RECURSIVE dedupeLoop(_, _, _, _)
dedupeLoop(in, k, out, seen) ==
    IF k > Len(in) THEN out
    ELSE IF in[k].Name \in seen
         THEN dedupeLoop(in, k + 1, out, seen)
         ELSE dedupeLoop(in, k + 1, Append(out, in[k]), seen \cup {in[k].Name})

\* a later duplicate replaces the survivor instead of being dropped
RECURSIVE dedupeLoopKeepLast(_, _, _)
dedupeLoopKeepLast(in, k, out) ==
    IF k > Len(in) THEN out
    ELSE IF \E j \in 1..Len(out) : out[j].Name = in[k].Name
         THEN dedupeLoopKeepLast(in, k + 1,
                  [j \in 1..Len(out) |->
                      IF out[j].Name = in[k].Name THEN in[k] ELSE out[j]])
         ELSE dedupeLoopKeepLast(in, k + 1, Append(out, in[k]))

dedupeServiceMessagesKeepLast(in) == dedupeLoopKeepLast(in, 1, <<>>)

\* survivors are prepended instead of appended
RECURSIVE dedupeLoopPrepend(_, _, _, _)
dedupeLoopPrepend(in, k, out, seen) ==
    IF k > Len(in) THEN out
    ELSE IF in[k].Name \in seen
         THEN dedupeLoopPrepend(in, k + 1, out, seen)
         ELSE dedupeLoopPrepend(in, k + 1, <<in[k]>> \o out, seen \cup {in[k].Name})

dedupeServiceMessagesPrepend(in) == dedupeLoopPrepend(in, 1, <<>>, {})

dedupeServiceMessages(in) == dedupeLoop(in, 1, <<>>, {})

-----------------------------------------------------------------------------
(* service.go:127-166  createServiceResources *)

\* Get and Create change places in the loop order
StandardMethodsGetFirst ==
    <<MethodGet, MethodCreate, MethodUpdate, MethodDelete, MethodList, MethodBatchCreate>>

StandardMethods ==
    <<MethodCreate, MethodGet, MethodUpdate, MethodDelete, MethodList, MethodBatchCreate>>

\* serviceResources{} returned beside an error
noServiceResources(err) == [svc |-> <<>>, svcMessages |-> <<>>, err |-> err]

appendResources(out, resources) ==
    [out EXCEPT !.svc[1].Method = Append(@, resources.methodDescriptor[1]),
                !.svcMessages = @ \o resources.messages]

\* the loop at service.go:154-161
RECURSIVE extraLoop(_, _, _)
extraLoop(extraMethods, k, out) ==
    IF k > Len(extraMethods) THEN out
    ELSE LET resources == genExtraMethodProtos(extraMethods[k])
         IN  IF resources.err # Nil THEN noServiceResources(resources.err)
             ELSE extraLoop(extraMethods, k + 1, appendResources(out, resources))

\* on an error the resources gathered so far are returned beside it
RECURSIVE standardLoopKeepsPartial(_, _, _, _, _)
standardLoopKeepsPartial(genType, methods, extraMethods, k, out) ==
    IF k > Len(StandardMethods) THEN extraLoop(extraMethods, 1, out)
    ELSE IF ~Is(methods, StandardMethods[k])
         THEN standardLoopKeepsPartial(genType, methods, extraMethods, k + 1, out)
         ELSE LET resources == genMethodProtos(genType, StandardMethods[k])
              IN  IF resources.err # Nil THEN [out EXCEPT !.err = resources.err]
                  ELSE standardLoopKeepsPartial(genType, methods, extraMethods, k + 1,
                                                appendResources(out, resources))

\* the loop at service.go:141-152, then the rest of the function
RECURSIVE standardLoop(_, _, _, _, _)
standardLoop(genType, methods, extraMethods, k, out) ==
    IF k > Len(StandardMethods) THEN extraLoop(extraMethods, 1, out)
    ELSE IF ~Is(methods, StandardMethods[k])
         THEN standardLoop(genType, methods, extraMethods, k + 1, out)
         ELSE LET resources == genMethodProtos(genType, StandardMethods[k])
              IN  IF resources.err # Nil THEN noServiceResources(resources.err)
                  ELSE standardLoop(genType, methods, extraMethods, k + 1,
                                    appendResources(out, resources))

\* out.svcMessages as it stands at service.go:162, before deduplication
collectServiceResources(genType, methods, blockName, extraMethods) ==
    LET serviceFqn == IF blockName # "" THEN blockName ELSE genType.Name \o "Service"
        out == [svc |-> <<[Name |-> serviceFqn, Method |-> <<>>]>>,
                svcMessages |-> <<>>, err |-> Nil]
    IN  standardLoop(genType, methods, extraMethods, 1, out)

createServiceResources(genType, methods, blockName, extraMethods) ==
    LET out == collectServiceResources(genType, methods, blockName, extraMethods)
    IN  IF out.err # Nil THEN out
        ELSE [out EXCEPT !.svcMessages = dedupeServiceMessages(@)]

-----------------------------------------------------------------------------
(* service.go:61-125  the Service annotation and its options *)

Methods(methods) == [opt |-> "Methods", methods |-> methods]

BlockName(name) == [opt |-> "BlockName", name |-> name]

ExtraMethod(name, input, output) ==
    [opt |-> "ExtraMethod", name |-> name, input |-> input, output |-> output]

\* apply(&s) for one option
applyOption(s, o) ==
    CASE o.opt = "Methods" -> [s EXCEPT !.Methods = o.methods]
      [] o.opt = "BlockName" -> [s EXCEPT !.BlockName = o.name]
      [] o.opt = "ExtraMethod" ->
            [s EXCEPT !.ExtraMethods =
                Append(@, [Name |-> o.name, InputFields |-> o.input,
                           OutputFields |-> o.output])]

RECURSIVE applyOptions(_, _, _)
applyOptions(s, os, k) ==
    IF k > Len(os) THEN s ELSE applyOptions(applyOption(s, os[k]), os, k + 1)

Service(os) ==
    LET s0 == [Generate |-> TRUE, Methods |-> 0, BlockName |-> "",
               ExtraMethods |-> <<>>]
        s == applyOptions(s0, os, 1)
    IN  IF s.Methods = 0 THEN [s EXCEPT !.Methods = MethodAll] ELSE s

-----------------------------------------------------------------------------
(* Inputs *)

EntityNames == {"User", "BlogPost"}

IDTypes == {"uint64", "string", "uuid", "float64"}

\* the entproto.Field number annotated on the id field
IDNumbers == {1, 2}

\* the resolved schema: the entity name and its ID field
GenTypes == [Name : EntityNames, ID : [Type : IDTypes, Number : IDNumbers]]

\* every MethodSet built by OR-ing kinds, the empty one included
MethodSets == {MethodCreate * k : k \in 0..63}

PbField(name, number, type, typeName, repeated) ==
    [FieldName |-> name, Number |-> number, Type |-> type, TypeName |-> typeName,
     Repeated |-> repeated]

ExtraMethodOptions ==
    { ExtraMethod("Ping",
          <<PbField("id", 1, "TYPE_INT32", "", FALSE)>>,
          <<PbField("user", 1, "0", "User", FALSE)>>),
      ExtraMethod("CreateUser",
          <<PbField("name", 1, "TYPE_STRING", "", FALSE),
            PbField("age", 1, "TYPE_INT32", "", FALSE)>>,
          <<PbField("users", 1, "TYPE_INT32", "User", TRUE)>>),
      ExtraMethod("Ping",
          <<>>,
          <<PbField("ok", 1, "TYPE_BOOL", "", FALSE)>>) }

SeqsUpTo(S, n) == UNION {[1..k -> S] : k \in 0..n}

\* the option lists given to Service(): at most one Methods, at most one
\* BlockName, then up to MaxExtraMethods ExtraMethod options
ServiceOptionLists ==
    { ms \o bn \o xs :
        ms \in {<<>>} \cup {<<Methods(m)>> : m \in MethodSets},
        bn \in {<<>>, <<BlockName("Zero")>>},
        xs \in SeqsUpTo(ExtraMethodOptions, MaxExtraMethods) }

-----------------------------------------------------------------------------
(* Service assembly of one entity *)

Init ==
    /\ pc = "schema"
    /\ entity \in GenTypes
    /\ opts = <<>>
    /\ annot = <<>>
    /\ res = <<>>
    /\ msgs = <<>>
    /\ deduped = <<>>
    /\ again = <<>>

\* the schema's Annotations() calls entproto.Service(opts...)
Annotate ==
    /\ pc = "schema"
    /\ \E os \in ServiceOptionLists :
          /\ opts' = os
          /\ annot' = <<Service(os)>>
    /\ pc' = "annotated"
    /\ UNCHANGED <<entity, res, msgs, deduped, again>>

\* the adapter assembles the service of an annotated entity; msgs keeps
\* out.svcMessages as collected before service.go:163
Generate ==
    /\ pc = "annotated"
    /\ annot[1].Generate
    /\ res' = <<createServiceResources(entity, annot[1].Methods, annot[1].BlockName,
                                       annot[1].ExtraMethods)>>
    /\ msgs' = collectServiceResources(entity, annot[1].Methods, annot[1].BlockName,
                                       annot[1].ExtraMethods).svcMessages
    /\ pc' = "generated"
    /\ UNCHANGED <<entity, opts, annot, deduped, again>>

Next == Annotate \/ Generate

Spec == Init /\ [][Next]_vars

-----------------------------------------------------------------------------
(* dedupeServiceMessages on its own *)

UserType == [Name |-> "User", ID |-> [Type |-> "uint64", Number |-> 1]]

\* messages the synthesizers produce for User; two pairs share a name and
\* differ in their fields
MessagePool ==
    { genMethodProtos(UserType, MethodCreate).messages[1],
      genMethodProtos(UserType, MethodGet).messages[1],
      DescriptorProto("CreateUserRequest",
          <<FieldDescriptorProto("name", 1, Nil, "TYPE_STRING", Nil)>>, <<>>),
      DescriptorProto("PingRequest",
          <<FieldDescriptorProto("id", 1, Nil, "TYPE_INT32", Nil)>>, <<>>),
      DescriptorProto("PingRequest", <<>>, <<>>) }

InitDedupe ==
    /\ pc = "msgs"
    /\ entity = UserType
    /\ opts = <<>>
    /\ annot = <<>>
    /\ res = <<>>
    /\ msgs \in SeqsUpTo(MessagePool, MaxMsgs)
    /\ deduped = <<>>
    /\ again = <<>>

Dedupe ==
    /\ pc = "msgs"
    /\ deduped' = dedupeServiceMessages(msgs)
    /\ pc' = "deduped"
    /\ UNCHANGED <<entity, opts, annot, res, msgs, again>>

DedupeAgain ==
    /\ pc = "deduped"
    /\ again' = dedupeServiceMessages(deduped)
    /\ pc' = "again"
    /\ UNCHANGED <<entity, opts, annot, res, msgs, deduped>>

NextDedupe == Dedupe \/ DedupeAgain

SpecDedupe == InitDedupe /\ [][NextDedupe]_vars

-----------------------------------------------------------------------------
(* genMethodProtos on its own: res maps each method synthesized so far to   *)
(* its methodResources                                                      *)

SynthMethods ==
    {MethodCreate, MethodGet, MethodUpdate, MethodDelete, MethodList,
     MethodBatchCreate, MethodAll}

InitSynth ==
    /\ pc = "schema"
    /\ entity \in GenTypes
    /\ opts = <<>>
    /\ annot = <<>>
    /\ res = <<>>
    /\ msgs = <<>>
    /\ deduped = <<>>
    /\ again = <<>>

Synthesize ==
    /\ pc \in {"schema", "method"}
    /\ \E m \in SynthMethods \ DOMAIN res :
          res' = [k \in DOMAIN res \cup {m} |->
                     IF k = m THEN genMethodProtos(entity, m) ELSE res[k]]
    /\ pc' = "method"
    /\ UNCHANGED <<entity, opts, annot, msgs, deduped, again>>

NextSynth == Synthesize

SpecSynth == InitSynth /\ [][NextSynth]_vars

-----------------------------------------------------------------------------
(* genExtraMethodProtos on its own *)

ExtraMethodNames == {"Ping", "CreateUser"}

\* field definitions: the zero Type is "0"; two definitions are numbered 1,
\* one gives a scalar type beside its typeName
PbFields ==
    { PbField("id", 1, "TYPE_INT32", "", FALSE),
      PbField("user", 1, "0", "User", FALSE),
      PbField("users", 2, "TYPE_INT32", "User", TRUE),
      PbField("tags", 3, "TYPE_STRING", "", TRUE) }

InitExtra ==
    /\ pc = "schema"
    /\ entity = UserType
    /\ opts = <<>>
    /\ annot = <<>>
    /\ res = <<>>
    /\ msgs = <<>>
    /\ deduped = <<>>
    /\ again = <<>>

\* entproto.Service(entproto.ExtraMethod(name, input, output))
AnnotateExtra ==
    /\ pc = "schema"
    /\ \E name \in ExtraMethodNames,
          input \in SeqsUpTo(PbFields, MaxExtraFields),
          output \in SeqsUpTo(PbFields, MaxExtraFields) :
          /\ opts' = <<ExtraMethod(name, input, output)>>
          /\ annot' = <<Service(<<ExtraMethod(name, input, output)>>)>>
    /\ pc' = "annotated"
    /\ UNCHANGED <<entity, res, msgs, deduped, again>>

GenerateExtra ==
    /\ pc = "annotated"
    /\ res' = <<genExtraMethodProtos(annot[1].ExtraMethods[1])>>
    /\ pc' = "extra"
    /\ UNCHANGED <<entity, opts, annot, msgs, deduped, again>>

NextExtra == AnnotateExtra \/ GenerateExtra

SpecExtra == InitExtra /\ [][NextExtra]_vars

-----------------------------------------------------------------------------
(* A MethodSet built by OR-ing kinds: opts lists the kinds OR-ed so far,   *)
(* res is the Method value                                                  *)

InitMethodSet ==
    /\ pc = "methods"
    /\ entity = UserType
    /\ opts = <<>>
    /\ annot = <<>>
    /\ res = 0
    /\ msgs = <<>>
    /\ deduped = <<>>
    /\ again = <<>>

\* res | k, for a kind k not OR-ed yet
OrKind ==
    /\ pc = "methods"
    /\ \E k \in {StandardMethods[i] : i \in 1..Len(StandardMethods)}
                  \ {opts[i] : i \in 1..Len(opts)} :
          /\ opts' = Append(opts, k)
          /\ res' = BitOr(res, k)
    /\ UNCHANGED <<pc, entity, annot, msgs, deduped, again>>

NextMethodSet == OrKind

SpecMethodSet == InitMethodSet /\ [][NextMethodSet]_vars

-----------------------------------------------------------------------------
(* named_messages.go  the named-message builders *)

\* the zero FieldGroups of a namedMessage without WithGroups
NoGroups == <<>>

NamedMessage(name) ==
    [ProtoMessageOptions |-> [SkipID |-> FALSE, SkipEdges |-> FALSE,
                              ExtraFields |-> <<>>],
     Name |-> name,
     Groups |-> NoGroups,
     ExtraFields |-> <<>>]

WithGroups(nm, groups) == [nm EXCEPT !.Groups = groups]

\* the flag lands in SkipEdges
WithSkipIDSetsSkipEdges(nm, skip) == [nm EXCEPT !.ProtoMessageOptions.SkipEdges = skip]

WithSkipID(nm, skip) == [nm EXCEPT !.ProtoMessageOptions.SkipID = skip]

WithSkipEdges(nm, skip) == [nm EXCEPT !.ProtoMessageOptions.SkipEdges = skip]

WithExtraFields(nm, fields) ==
    [nm EXCEPT !.ProtoMessageOptions.ExtraFields = @ \o fields]

ExtraField(name, number) ==
    [Name |-> name, Descriptor |-> PbField("", number, "0", "", FALSE)]

WithType(ef, t) == [ef EXCEPT !.Descriptor.Type = t]

WithTypeName(ef, name) == [ef EXCEPT !.Descriptor.TypeName = name]

\* the MessageOption NamedMessages(messages...) applied to msg
NamedMessages(msg, messages) == [msg EXCEPT !.NamedMessages = @ \o messages]

\* one call of a builder chain NamedMessage(name).With...(...)
applyCall(nm, c) ==
    CASE c.call = "WithGroups" -> WithGroups(nm, c.groups)
      [] c.call = "WithSkipID" -> WithSkipID(nm, c.skip)
      [] c.call = "WithSkipEdges" -> WithSkipEdges(nm, c.skip)
      [] c.call = "WithExtraFields" -> WithExtraFields(nm, c.fields)

RECURSIVE applyCalls(_, _, _)
applyCalls(nm, calls, k) ==
    IF k > Len(calls) THEN nm ELSE applyCalls(applyCall(nm, calls[k]), calls, k + 1)

\* the named message a chain builds
buildNamedMessage(chain) == applyCalls(NamedMessage(chain.name), chain.calls, 1)

\* entproto.Message(NamedMessages(...), NamedMessages(...), ...)
RECURSIVE applyMessageOptions(_, _, _)
applyMessageOptions(msg, os, k) ==
    IF k > Len(os) THEN msg
    ELSE applyMessageOptions(
             NamedMessages(msg, [i \in 1..Len(os[k]) |-> buildNamedMessage(os[k][i])]),
             os, k + 1)

Message(os) == applyMessageOptions([NamedMessages |-> <<>>], os, 1)

-----------------------------------------------------------------------------
(* The named-message composer and the final message set *)

\* the group "common" of User (user.go:45-78): the id field is its first
\* member
CommonGroup ==
    << [Name |-> "common",
        Fields |-> << [Name |-> "id", Type |-> "uint64", Number |-> 1, Edge |-> FALSE],
                      [Name |-> "user_name", Type |-> "string", Number |-> 2, Edge |-> FALSE],
                      [Name |-> "joined", Type |-> "time", Number |-> 3, Edge |-> FALSE],
                      [Name |-> "points", Type |-> "uint", Number |-> 4, Edge |-> FALSE],
                      [Name |-> "exp", Type |-> "uint64", Number |-> 5, Edge |-> FALSE],
                      [Name |-> "status", Type |-> "enum", Number |-> 6, Edge |-> FALSE] >>] >>

\* the descriptor of a schema field of a group
groupFieldDescriptor(f) ==
    CASE f.Type = "uint64" -> FieldDescriptorProto(f.Name, f.Number, Nil, "TYPE_UINT64", Nil)
      [] f.Type = "uint" -> FieldDescriptorProto(f.Name, f.Number, Nil, "TYPE_UINT64", Nil)
      [] f.Type = "string" -> FieldDescriptorProto(f.Name, f.Number, Nil, "TYPE_STRING", Nil)
      [] f.Type = "time" -> FieldDescriptorProto(f.Name, f.Number, Nil, "TYPE_MESSAGE",
                                                 "google.protobuf.Timestamp")
      [] f.Type = "enum" -> FieldDescriptorProto(f.Name, f.Number, Nil, "TYPE_ENUM", "Status")

\* the fields of all groups of gs, in declared order
RECURSIVE groupFields(_, _)
groupFields(gs, k) ==
    IF k > Len(gs) THEN <<>> ELSE gs[k].Fields \o groupFields(gs, k + 1)

\* the descriptor of an extra field: its own name and number
extraFieldDescriptor(ef) ==
    FieldDescriptorProto(ef.Name, ef.Descriptor.Number, Nil,
        IF ef.Descriptor.TypeName # "" THEN "TYPE_MESSAGE" ELSE ef.Descriptor.Type,
        IF ef.Descriptor.TypeName # "" THEN ef.Descriptor.TypeName ELSE Nil)

\* one named message: the entity's ID field unless SkipID, the other fields
\* of the groups (the edge-derived ones unless SkipEdges), the extra fields
composeNamedMessage(genType, nm) ==
    LET o == nm.ProtoMessageOptions
        id == IF o.SkipID THEN <<>> ELSE toProtoFieldDescriptor(genType.ID).field
        keep(f) == f.Name # "id" /\ ~(o.SkipEdges /\ f.Edge)
        fromGroups == SelectSeq(groupFields(nm.Groups, 1), keep)
    IN  DescriptorProto(nm.Name,
            id \o [k \in 1..Len(fromGroups) |-> groupFieldDescriptor(fromGroups[k])]
               \o [k \in 1..Len(o.ExtraFields) |-> extraFieldDescriptor(o.ExtraFields[k])],
            <<>>)

composeNamedMessages(genType, nms) ==
    [k \in 1..Len(nms) |-> composeNamedMessage(genType, nms[k])]

\* every message of the entity before the final deduplication: the service
\* messages, then the named messages
collectMessages(genType, svc, msg) ==
    createServiceResources(genType, svc.Methods, svc.BlockName, svc.ExtraMethods)
        .svcMessages \o composeNamedMessages(genType, msg.NamedMessages)

finalMessages(genType, svc, msg) ==
    dedupeServiceMessages(collectMessages(genType, svc, msg))

-----------------------------------------------------------------------------
(* Named messages of one entity: annot holds the Service and the Message    *)
(* annotation, msgs the collected messages, res the final set               *)

NamedMessageNames == {"UpdateUserProfile", "UserSummary"}

Extra1 == WithType(ExtraField("extra_1", 10), "TYPE_BOOL")

Extra2 == WithType(ExtraField("extra_2", 11), "TYPE_STRING")

Call(name, arg) ==
    CASE name = "WithGroups" -> [call |-> name, groups |-> arg]
      [] name = "WithExtraFields" -> [call |-> name, fields |-> arg]
      [] OTHER -> [call |-> name, skip |-> arg]

\* builder chains: with or without the group, extra fields in one call or
\* over two, with or without the skip flags
NamedMessageChains ==
    { [name |-> n, calls |-> g \o x \o sk] :
        n \in NamedMessageNames,
        g \in {<<>>, <<Call("WithGroups", CommonGroup)>>},
        x \in { <<>>,
                <<Call("WithExtraFields", <<Extra1>>), Call("WithExtraFields", <<Extra2>>)>>,
                <<Call("WithExtraFields", <<Extra2, Extra1>>)>> },
        sk \in { <<>>,
                 <<Call("WithSkipID", TRUE)>>,
                 <<Call("WithSkipID", TRUE), Call("WithSkipEdges", TRUE)>> } }

\* the chains given to one NamedMessages option, or to one option each
MessageOptionLists ==
    UNION { {<<cs>>, [k \in 1..Len(cs) |-> <<cs[k]>>]} :
               cs \in SeqsUpTo(NamedMessageChains, MaxNamedMessages) }

InitNamed ==
    /\ pc = "schema"
    /\ entity = UserType
    /\ opts = <<>>
    /\ annot = <<>>
    /\ res = <<>>
    /\ msgs = <<>>
    /\ deduped = <<>>
    /\ again = <<>>

\* User.Annotations(): Service(BlockName("Zero")) and Message(NamedMessages(...))
AnnotateNamed ==
    /\ pc = "schema"
    /\ \E os \in MessageOptionLists :
          /\ opts' = os
          /\ annot' = <<Service(<<BlockName("Zero")>>), Message(os)>>
    /\ pc' = "annotated"
    /\ UNCHANGED <<entity, res, msgs, deduped, again>>

ComposeNamed ==
    /\ pc = "annotated"
    /\ msgs' = collectMessages(entity, annot[1], annot[2])
    /\ res' = finalMessages(entity, annot[1], annot[2])
    /\ pc' = "composed"
    /\ UNCHANGED <<entity, opts, annot, deduped, again>>

NextNamed == AnnotateNamed \/ ComposeNamed

SpecNamed == InitNamed /\ [][NextNamed]_vars

-----------------------------------------------------------------------------
(* Properties of dedupeServiceMessages (SpecDedupe) *)

Names(ms) == {ms[k].Name : k \in 1..Len(ms)}

\* index of the first message of ms named n
FirstIndex(ms, n) ==
    CHOOSE k \in 1..Len(ms) :
        /\ ms[k].Name = n
        /\ \A j \in 1..(k - 1) : ms[j].Name # n

\* C1: the result of dedupeServiceMessages holds no two messages with the
\* same name, exactly one message per name of the input, for each name the
\* first input occurrence unchanged, and the survivors in input order.
C1_DedupeContract ==
    pc \in {"deduped", "again"} =>
        /\ \A i, j \in 1..Len(deduped) :
              deduped[i].Name = deduped[j].Name => i = j
        /\ Names(deduped) = Names(msgs)
        /\ \A i \in 1..Len(deduped) :
              deduped[i] = msgs[FirstIndex(msgs, deduped[i].Name)]
        /\ \A i, j \in 1..Len(deduped) :
              i < j => FirstIndex(msgs, deduped[i].Name)
                         < FirstIndex(msgs, deduped[j].Name)

\* a later message shares the name of an earlier one and differs in fields,
\* and another name follows
C1_Witness ==
    /\ pc = "deduped"
    /\ \E i, j \in 1..Len(msgs) :
          i < j /\ msgs[i].Name = msgs[j].Name /\ msgs[i] # msgs[j]
    /\ Len(deduped) >= 2
    /\ Len(deduped) < Len(msgs)

\* C2: deduplicating a deduplicated list changes nothing:
\* dedupe(dedupe(m)) = dedupe(m), same messages, order and content.
C2_DedupeIdempotent ==
    pc = "again" => again = deduped

C2_Witness ==
    /\ pc = "again"
    /\ Len(deduped) >= 2
    /\ Len(deduped) < Len(msgs)
    /\ again = deduped

-----------------------------------------------------------------------------
(* Properties of the assembled service (Spec) *)

\* the result of a finished createServiceResources call
Generated == pc = "generated"

Succeeded == Generated /\ res[1].err = Nil

\* the six kinds in the order the service lists them, and their name prefixes
Kinds ==
    <<MethodCreate, MethodGet, MethodUpdate, MethodDelete, MethodList, MethodBatchCreate>>

KindNames == <<"Create", "Get", "Update", "Delete", "List", "BatchCreate">>

\* kind number k is in the method set m
HasKind(m, k) == (m \div Kinds[k]) % 2 = 1

MethodNames(ms) == [k \in 1..Len(ms) |-> ms[k].Name]

\* names of the enabled standard methods from kind k on, in the fixed order
RECURSIVE EnabledNames(_, _, _)
EnabledNames(m, name, k) ==
    IF k > Len(Kinds) THEN <<>>
    ELSE (IF HasKind(m, k) THEN <<KindNames[k] \o name>> ELSE <<>>)
             \o EnabledNames(m, name, k + 1)

ExtraNames(xs) == [k \in 1..Len(xs) |-> xs[k].Name]

\* C3: the service lists exactly the standard methods whose bit is set, in
\* the order Create, Get, Update, Delete, List, BatchCreate, followed by
\* every extra method in its declared order.
C3_MethodOrder ==
    Succeeded =>
        /\ Len(res[1].svc) = 1
        /\ MethodNames(res[1].svc[1].Method)
              = EnabledNames(annot[1].Methods, entity.Name, 1)
                  \o ExtraNames(annot[1].ExtraMethods)

\* some but not all standard methods are enabled, Create is not, and two
\* extra methods follow
C3_Witness ==
    /\ Succeeded
    /\ HasKind(annot[1].Methods, 2)
    /\ HasKind(annot[1].Methods, 6)
    /\ ~HasKind(annot[1].Methods, 1)
    /\ ~HasKind(annot[1].Methods, 4)
    /\ Len(annot[1].ExtraMethods) = 2
    /\ Len(res[1].svc[1].Method) = 4

\* C4 (as claimed): with MethodSet = All exactly six standard methods are
\* generated, named <Kind><Entity>, BatchCreate with the pluralized entity
\* name.
C4_AllSixPluralBatchCreate ==
    (Succeeded /\ annot[1].Methods = MethodAll) =>
        /\ Len(res[1].svc[1].Method) = 6 + Len(annot[1].ExtraMethods)
        /\ \A k \in 1..5 :
              res[1].svc[1].Method[k].Name = KindNames[k] \o entity.Name
        /\ res[1].svc[1].Method[6].Name = "BatchCreate" \o plural(entity.Name)

CreateRequestName == "Create" \o entity.Name \o "Request"

\* number of messages of ms named n
Count(ms, n) == Cardinality({k \in 1..Len(ms) : ms[k].Name = n})

\* the single entity-typed field numbered 1
IsCreateRequest(msg) ==
    /\ msg.Name = CreateRequestName
    /\ Len(msg.Field) = 1
    /\ msg.Field[1].Number = 1
    /\ msg.Field[1].Type = "TYPE_MESSAGE"
    /\ msg.Field[1].TypeName = entity.Name
    /\ msg.Field[1].Label = Nil

\* C5: with MethodBatchCreate enabled the deduplicated messages hold exactly
\* one Create<Entity>Request, with the single entity-typed field numbered 1,
\* whether or not MethodCreate is enabled; with both enabled the two
\* synthesized copies are equal and one is kept.
C5_BatchCreateHasCreateRequest ==
    (Succeeded /\ HasKind(annot[1].Methods, 6)) =>
        /\ Count(res[1].svcMessages, CreateRequestName) = 1
        /\ \A k \in 1..Len(res[1].svcMessages) :
              res[1].svcMessages[k].Name = CreateRequestName
                  => IsCreateRequest(res[1].svcMessages[k])
        /\ HasKind(annot[1].Methods, 1) =>
              LET std == Len(msgs) - 2 * Len(annot[1].ExtraMethods)
                  copies == {k \in 1..std : msgs[k].Name = CreateRequestName}
              IN  /\ Cardinality(copies) = 2
                  /\ \A i, j \in copies : msgs[i] = msgs[j]

\* BatchCreate without Create, and an extra method whose request message
\* is named Create<Entity>Request as well
C5_Witness ==
    /\ Succeeded
    /\ HasKind(annot[1].Methods, 6)
    /\ ~HasKind(annot[1].Methods, 1)
    /\ Count(msgs, CreateRequestName) = 2
    /\ Count(res[1].svcMessages, CreateRequestName) = 1

\* the entity's ID type is one List supports
ListableID == entity.ID.Type \in IntegerTypes \cup {"uuid", "string"}

ListError ==
    "entproto: list method does not support schema \"" \o entity.Name
        \o "\" id type \"" \o entity.ID.Type \o "\""

\* C6: with MethodList enabled and an ID type outside {integer family, UUID,
\* string} generation fails with the unsupported-ID-type error and returns
\* no service descriptor, no methods and no messages, the messages of the
\* methods synthesized before List included.
C6_ListUnsupportedID ==
    (Generated /\ HasKind(annot[1].Methods, 5) /\ ~ListableID) =>
        /\ res[1].err = ListError
        /\ res[1].svc = <<>>
        /\ res[1].svcMessages = <<>>

\* Create, Get, Update and Delete were enabled before List, and extra
\* methods were declared
C6_Witness ==
    /\ Generated
    /\ annot[1].Methods = MethodAll
    /\ ~ListableID
    /\ Len(annot[1].ExtraMethods) > 0
    /\ res[1].err # Nil

-----------------------------------------------------------------------------
(* Properties of the standard method synthesizers (SpecSynth) *)

Synthesized(m) == pc = "method" /\ m \in DOMAIN res

\* the entity's id field as a field descriptor
EntityIDField == toProtoFieldDescriptor(entity.ID).field[1]

\* C7: for a supported ID type List synthesis produces exactly the messages
\* List<Entity>Request {page_size INT32 #1, page_token STRING #2,
\* view ENUM View #3}, without id field, and List<Entity>Response
\* {<snake entity>_list repeated MESSAGE <Entity> #1, next_page_token
\* STRING #2}; the method's input and output types are these two.
C7_ListMessages ==
    (Synthesized(MethodList) /\ ListableID) =>
        LET r == res[MethodList]
        IN  /\ r.err = Nil
            /\ Len(r.messages) = 2
            /\ r.messages[1].Name = "List" \o entity.Name \o "Request"
            /\ r.messages[1].Field =
                  << [Name |-> "page_size", Number |-> 1, Label |-> Nil,
                      Type |-> "TYPE_INT32", TypeName |-> Nil],
                     [Name |-> "page_token", Number |-> 2, Label |-> Nil,
                      Type |-> "TYPE_STRING", TypeName |-> Nil],
                     [Name |-> "view", Number |-> 3, Label |-> Nil,
                      Type |-> "TYPE_ENUM", TypeName |-> "View"] >>
            /\ \A k \in 1..Len(r.messages[1].Field) :
                  r.messages[1].Field[k].Name # "id"
            /\ r.messages[2].Name = "List" \o entity.Name \o "Response"
            /\ r.messages[2].Field =
                  << [Name |-> snake(entity.Name) \o "_list", Number |-> 1,
                      Label |-> "LABEL_REPEATED", Type |-> "TYPE_MESSAGE",
                      TypeName |-> entity.Name],
                     [Name |-> "next_page_token", Number |-> 2, Label |-> Nil,
                      Type |-> "TYPE_STRING", TypeName |-> Nil] >>
            /\ Len(r.methodDescriptor) = 1
            /\ r.methodDescriptor[1].InputType = r.messages[1].Name
            /\ r.methodDescriptor[1].OutputType = r.messages[2].Name

C7_Witness ==
    /\ Synthesized(MethodList)
    /\ ListableID
    /\ entity.Name = "BlogPost"
    /\ res[MethodList].messages[2].Field[1].Name = "blog_post_list"

\* the Get synthesis but for the names of the View enum's values
GetShape(valueNames) ==
    LET r == res[MethodGet]
    IN  /\ r.err = Nil
        /\ Len(r.messages) = 1
        /\ r.messages[1].Name = "Get" \o entity.Name \o "Request"
        /\ Len(r.messages[1].Field) = 2
        /\ r.messages[1].Field[1] = EntityIDField
        /\ r.messages[1].Field[2].Name = "view"
        /\ r.messages[1].Field[2].Type = "TYPE_ENUM"
        /\ r.messages[1].Field[2].TypeName = "View"
        /\ Len(r.messages[1].EnumType) = 1
        /\ r.messages[1].EnumType[1].Name = "View"
        /\ r.messages[1].EnumType[1].Value =
              << [Number |-> 0, Name |-> valueNames[1]],
                 [Number |-> 1, Name |-> valueNames[2]],
                 [Number |-> 2, Name |-> valueNames[3]] >>
        /\ (MethodList \in DOMAIN res /\ res[MethodList].err = Nil) =>
              r.messages[1].EnumType = res[MethodList].messages[1].EnumType
        /\ r.methodDescriptor[1].OutputType = entity.Name
        /\ \A k \in 1..Len(r.messages) : r.messages[k].Name # entity.Name

\* C8 (as claimed): Get synthesis produces the one message Get<Entity>Request
\* {id field, view ENUM View} with the nested enum View {UNSPECIFIED=0,
\* BASIC=1, WITH_EDGE_IDS=2}, shaped as List's View enum; the output type is
\* the entity message and no response message is generated.
C8_GetViewUnspecified ==
    Synthesized(MethodGet) => GetShape(<<"UNSPECIFIED", "BASIC", "WITH_EDGE_IDS">>)

\* C8 (amended): as claimed, the value numbered 0 being named
\* VIEW_UNSPECIFIED.
C8_GetMessage ==
    Synthesized(MethodGet) => GetShape(<<"VIEW_UNSPECIFIED", "BASIC", "WITH_EDGE_IDS">>)

\* Get and List were both synthesized, so the two enums are compared
C8_Witness ==
    /\ Synthesized(MethodGet)
    /\ Synthesized(MethodList)
    /\ res[MethodList].err = Nil
    /\ entity.ID.Number = 2
    /\ res[MethodGet].messages[1].EnumType[1].Value[1].Name = "VIEW_UNSPECIFIED"

\* the request of Create or Update: one singular MESSAGE field named by the
\* snake-cased entity name, numbered 1, typed as the entity
SingleEntityRequest(r, kind) ==
    /\ r.err = Nil
    /\ Len(r.messages) = 1
    /\ r.messages[1].Name = kind \o entity.Name \o "Request"
    /\ r.messages[1].Field =
          << [Name |-> snake(entity.Name), Number |-> 1, Label |-> Nil,
              Type |-> "TYPE_MESSAGE", TypeName |-> entity.Name] >>
    /\ r.methodDescriptor[1].InputType = r.messages[1].Name
    /\ r.methodDescriptor[1].OutputType = entity.Name

\* C9: Create and Update synthesis each produce one message,
\* Create<Entity>Request / Update<Entity>Request, with one singular MESSAGE
\* field named by the snake-cased entity name, numbered 1 and typed as the
\* entity, and return the entity; the two differ in the names only.
C9_CreateUpdateAlike ==
    /\ Synthesized(MethodCreate) => SingleEntityRequest(res[MethodCreate], "Create")
    /\ Synthesized(MethodUpdate) => SingleEntityRequest(res[MethodUpdate], "Update")
    /\ (Synthesized(MethodCreate) /\ Synthesized(MethodUpdate)) =>
          LET c == res[MethodCreate]
              u == res[MethodUpdate]
          IN  /\ [u.messages[1] EXCEPT !.Name = c.messages[1].Name] = c.messages[1]
              /\ u.methodDescriptor[1].OutputType = c.methodDescriptor[1].OutputType
              /\ u.messages[1].Name # c.messages[1].Name
              /\ u.methodDescriptor[1].Name # c.methodDescriptor[1].Name

C9_Witness ==
    /\ Synthesized(MethodCreate)
    /\ Synthesized(MethodUpdate)
    /\ entity.Name = "BlogPost"
    /\ res[MethodUpdate].messages[1].Field[1].Name = "blog_post"

\* C10: Delete synthesis produces the one message Delete<Entity>Request
\* whose only field is the entity's id field; the output type is
\* google.protobuf.Empty, and no message of that name is generated.
C10_DeleteMessage ==
    Synthesized(MethodDelete) =>
        LET r == res[MethodDelete]
        IN  /\ r.err = Nil
            /\ Len(r.messages) = 1
            /\ r.messages[1].Name = "Delete" \o entity.Name \o "Request"
            /\ r.messages[1].Field = <<EntityIDField>>
            /\ r.methodDescriptor[1].InputType = r.messages[1].Name
            /\ r.methodDescriptor[1].OutputType = "google.protobuf.Empty"
            /\ \A k \in 1..Len(r.messages) :
                  r.messages[k].Name # "google.protobuf.Empty"

C10_Witness ==
    /\ Synthesized(MethodDelete)
    /\ entity.ID.Type = "float64"
    /\ res[MethodDelete].messages[1].Field[1].Name = "id"
    /\ res[MethodDelete].messages[1].Field[1].Number = entity.ID.Number

-----------------------------------------------------------------------------
(* Properties of the extra method synthesizer (SpecExtra) *)

ExtraSynthesized == pc = "extra"

\* the message msg holds one field per definition of defs, in order, each
\* as the definition declares it
FieldsAsDeclared(msg, defs) ==
    /\ Len(msg.Field) = Len(defs)
    /\ \A k \in 1..Len(defs) :
          /\ msg.Field[k].Name = defs[k].FieldName
          /\ msg.Field[k].Number = defs[k].Number
          /\ defs[k].TypeName # "" =>
                /\ msg.Field[k].Type = "TYPE_MESSAGE"
                /\ msg.Field[k].TypeName = defs[k].TypeName
          /\ defs[k].TypeName = "" =>
                /\ msg.Field[k].Type = defs[k].Type
                /\ msg.Field[k].TypeName = Nil
          /\ (msg.Field[k].Label = "LABEL_REPEATED") = defs[k].Repeated

SharesNumber(defs) ==
    \E i, j \in 1..Len(defs) : i # j /\ defs[i].Number = defs[j].Number

\* C12: extra-method synthesis fails with a duplicate-field-number error,
\* emitting no messages and no method descriptor, whenever two definitions
\* of the same direction share a field number.
C12_DuplicateNumberFails ==
    (ExtraSynthesized
        /\ (SharesNumber(annot[1].ExtraMethods[1].InputFields)
              \/ SharesNumber(annot[1].ExtraMethods[1].OutputFields))) =>
        /\ res[1].err # Nil
        /\ res[1].messages = <<>>
        /\ res[1].methodDescriptor = <<>>

-----------------------------------------------------------------------------
(* Further properties of the assembled service (Spec) *)

NamedTypes == {"TYPE_ENUM", "TYPE_MESSAGE"}

\* C13: in every message returned by a successful createServiceResources
\* the field numbers are pairwise distinct, and a field has a typeName
\* exactly when its wire type is ENUM or MESSAGE.
C13_FieldNumbersUnique ==
    Succeeded =>
        \A k \in 1..Len(res[1].svcMessages) :
            LET fs == res[1].svcMessages[k].Field
            IN  /\ \A i, j \in 1..Len(fs) : fs[i].Number = fs[j].Number => i = j
                /\ \A i \in 1..Len(fs) :
                      (fs[i].TypeName # Nil) = (fs[i].Type \in NamedTypes)

\* C14: in every service descriptor returned by a successful
\* createServiceResources the method names are pairwise distinct.
C14_MethodNamesUnique ==
    Succeeded =>
        LET ms == res[1].svc[1].Method
        IN  \A i, j \in 1..Len(ms) : ms[i].Name = ms[j].Name => i = j

BatchCreateRequestName == "BatchCreate" \o plural(entity.Name) \o "Request"

\* C18: after a successful createServiceResources no type reference
\* dangles: every method's input type names a message of the deduplicated
\* set, every output type names a message of the set, the entity message or
\* google.protobuf.Empty, and the type of BatchCreate's requests field
\* names a message of the set.
C18_NoDanglingReference ==
    Succeeded =>
        LET names == Names(res[1].svcMessages)
            ms == res[1].svc[1].Method
        IN  /\ \A k \in 1..Len(ms) :
                  /\ ms[k].InputType \in names
                  /\ ms[k].OutputType
                        \in names \cup {entity.Name, "google.protobuf.Empty"}
            /\ HasKind(annot[1].Methods, 6) =>
                  /\ BatchCreateRequestName \in names
                  /\ \A k \in 1..Len(res[1].svcMessages) :
                        res[1].svcMessages[k].Name = BatchCreateRequestName =>
                            /\ Len(res[1].svcMessages[k].Field) = 1
                            /\ res[1].svcMessages[k].Field[1].Name = "requests"
                            /\ res[1].svcMessages[k].Field[1].TypeName \in names

\* BatchCreate and Delete without Create and without extra methods: the
\* only Create<Entity>Request is the one BatchCreate brings
C18_Witness ==
    /\ Succeeded
    /\ HasKind(annot[1].Methods, 6)
    /\ HasKind(annot[1].Methods, 4)
    /\ ~HasKind(annot[1].Methods, 1)
    /\ annot[1].ExtraMethods = <<>>
    /\ CreateRequestName \in Names(res[1].svcMessages)

\* C19: for every extra method of a successfully assembled service the
\* message of the deduplicated set named by its input type, and the one
\* named by its output type, has exactly the fields declared for that
\* method, also when the name is that of an earlier message.
C19_ExtraMessagesAsDeclared ==
    Succeeded =>
        \A x \in 1..Len(annot[1].ExtraMethods) :
            \A k \in 1..Len(res[1].svcMessages) :
                LET m == annot[1].ExtraMethods[x]
                    msg == res[1].svcMessages[k]
                IN  /\ msg.Name = m.Name \o "Request"
                        => FieldsAsDeclared(msg, m.InputFields)
                    /\ msg.Name = m.Name \o "Response"
                        => FieldsAsDeclared(msg, m.OutputFields)

-----------------------------------------------------------------------------
(* Properties of the Method bit mask (SpecMethodSet) *)

KindSet == {Kinds[k] : k \in 1..Len(Kinds)}

\* C15: the six kinds are non-zero and pairwise bit-disjoint, MethodAll is
\* their union, and for every MethodSet m built by OR-ing kinds and every
\* kind k, m.Is(k) holds exactly when k is one of the kinds in m.
C15_MethodSetIsSet ==
    /\ \A k \in KindSet : k # 0
    /\ \A i, j \in 1..Len(Kinds) : i # j => BitAnd(Kinds[i], Kinds[j]) = 0
    /\ Cardinality(KindSet) = 6
    /\ Len(opts) = 6 => res = MethodAll
    /\ \A k \in KindSet : Is(res, k) = (k \in {opts[i] : i \in 1..Len(opts)})

\* BatchCreate | Create | Update
C15_Witness ==
    /\ pc = "methods"
    /\ opts = <<MethodBatchCreate, MethodCreate, MethodUpdate>>
    /\ res = 296
    /\ Is(res, MethodUpdate)
    /\ ~Is(res, MethodGet)

-----------------------------------------------------------------------------
(* Properties of the named messages (SpecNamed) *)

Composed == pc = "composed"

\* the builder chains of the Message annotation, in declared order
RECURSIVE Flatten(_, _)
Flatten(os, k) == IF k > Len(os) THEN <<>> ELSE os[k] \o Flatten(os, k + 1)

Chains == Flatten(opts, 1)

\* the message composed for the k-th chain, before the final deduplication
ComposedFor(k) == msgs[Len(msgs) - Len(Chains) + k]

\* the message of the final set named n
FinalNamed(n) == res[FirstIndex(res, n)]

CallsOf(chain, name) == SelectSeq(chain.calls, LAMBDA c : c.call = name)

\* the chain ends with the skipID flag set
DeclaresSkipID(chain) ==
    LET cs == CallsOf(chain, "WithSkipID")
    IN  Len(cs) > 0 /\ cs[Len(cs)].skip

\* the extra fields of every WithExtraFields call of the chain, in call order
RECURSIVE DeclaredExtraFields(_, _)
DeclaredExtraFields(cs, k) ==
    IF k > Len(cs) THEN <<>> ELSE cs[k].fields \o DeclaredExtraFields(cs, k + 1)

\* the fields of a message named like the extra fields efs, each with its
\* declared number
AreExtraFields(fs, efs) ==
    /\ Len(fs) = Len(efs)
    /\ \A k \in 1..Len(efs) :
          /\ fs[k].Name = efs[k].Name
          /\ fs[k].Number = efs[k].Descriptor.Number

\* the number of fields the groups of a chain add to its message
GroupFieldCount(chain) ==
    LET gs == CallsOf(chain, "WithGroups")
    IN  IF Len(gs) = 0 THEN 0
        ELSE Len(SelectSeq(groupFields(gs[Len(gs)].groups, 1), LAMBDA f : f.Name # "id"))

====
